---- MODULE Spec2Model ----
(***************************************************************************)
(* Model of scripts/syzygy_blunders.py: the main loop over EPD lines and   *)
(* PGN moves, and maybe_analyse_board, which probes one position with a    *)
(* schedule of node budgets and writes samples.epd / failures.epd.         *)
(***************************************************************************)
EXTENDS Integers, Sequences, FiniteSets, TLC

\* ---------------------------------------------------------------- bounds
\* Positions handed to maybe_analyse_board in one run.
MaxPositions == 2
\* Largest --iters value of a run.
MaxIters == 3
\* Largest --min-nodes / --max-nodes value of a run.
MaxNodes == 3

\* ------------------------------------------------------------- constants
\* The DTZ horizon of line 24: abs(dtz) > 100 is scored as a draw.
DtzLimit == 100

\* --draw and --win values of a run (the defaults 100 / 200, scaled down).
DrawValues == {0, 1, 2}
WinValues == {1, 2, 3}

\* Relative scores (cp) the engine may report, on both sides of +-draw, +-win.
Scores == -3..3

\* The reply of engine.analyse: an info dict with or without a "score" key.
Infos == [has_score : {TRUE}, score : Scores] \cup {[has_score |-> FALSE, score |-> 0]}

\* DTZ values on both sides of the horizon.
DtzValues == {-(DtzLimit + 1), -DtzLimit, 0, DtzLimit, DtzLimit + 1}

\* A board, reduced to what the script asks of it: is_game_over(), whether the
\* tablebases hold it (get_dtz is not None) and its DTZ.  Two boards are equal
\* (chess.Board.__eq__) when they are the same record.
Boards ==
    {[over |-> TRUE, in_tb |-> TRUE, dtz |-> 0], [over |-> FALSE, in_tb |-> FALSE, dtz |-> 0]}
        \cup [over : {FALSE}, in_tb : {TRUE}, dtz : DtzValues]

\* The boards of a corpus with one tablebase position, of DTZ d, beside a
\* finished game and a board outside the tablebases.
ClassBoards(d) == {b \in Boards : b.over \/ ~b.in_tb \/ b.dtz = d}

\* The parsed command line.
Args ==
    [iters : 1..MaxIters, min_nodes : 1..MaxNodes, max_nodes : 1..MaxNodes,
     draw : DrawValues, win : WinValues]

VARIABLES
    args,          \* parser.parse_args()
    corpus,        \* the boards the EPD and PGN files of the run hold
    replies,       \* the info dicts the engine under test returns
    phase,         \* main: "epd" loop, "pgn" loop, "done" after the cleanup (count,
                   \* the number of the line or game, only labels the log line)
    pc,            \* "main", "loop" (inside the for of maybe_analyse_board), "raised"
    ncalls,        \* number of calls of maybe_analyse_board so far
    board,         \* the board of the latest call of maybe_analyse_board
    result,        \* local of maybe_analyse_board: "=", "+", "-" ("" outside the loop)
    n,             \* loop index of maybe_analyse_board
    first_game,    \* engine protocol state: no game announced yet
    engine_game,   \* engine protocol state: the game of the latest search
    searches,      \* the engine.analyse calls of the latest call of maybe_analyse_board
    sample_file,   \* lines of samples.epd
    miseval_file   \* lines of failures.epd

vars ==
    <<args, corpus, replies, phase, pc, ncalls, board, result, n, first_game, engine_game,
      searches, sample_file, miseval_file>>

\* ------------------------------------------------------------ pure parts
Abs(x) == IF x < 0 THEN -x ELSE x

RECURSIVE Pow(_, _)
Pow(b, e) == IF e = 0 THEN 1 ELSE b * Pow(b, e - 1)

\* Result with the horizon itself scored as a draw.
ResultHorizonIncluded(dtz) ==
    IF Abs(dtz) >= DtzLimit \/ dtz = 0 THEN "=" ELSE IF dtz > 0 THEN "+" ELSE "-"

\* Line 24.
Result(dtz) ==
    IF Abs(dtz) > DtzLimit \/ dtz = 0 THEN "=" ELSE IF dtz > 0 THEN "+" ELSE "-"

\* CurNodes with the exponent i / iters instead of i / (iters - 1).
CurNodesDividedByIters(i, a) ==
    LET m == a.iters
        target == Pow(2, m) * Pow(a.min_nodes, m - i) * Pow(a.max_nodes, i)
        lo == IF a.min_nodes < a.max_nodes THEN a.min_nodes ELSE a.max_nodes
        hi == IF a.min_nodes < a.max_nodes THEN a.max_nodes ELSE a.min_nodes
    IN  CHOOSE c \in lo..hi : Pow(2 * c - 1, m) < target /\ target < Pow(2 * c + 1, m)

\* Lines 43-45, for iters >= 2: round(min_nodes * (max_nodes / min_nodes) ** (i / (iters - 1))).
\* With m = iters - 1 the real value v satisfies v^m = min_nodes^(m-i) * max_nodes^i,
\* and round(v) = c iff (2c-1)^m < 2^m * v^m < (2c+1)^m (a tie would make an
\* odd number equal an even one, so round's tie rule never applies).
CurNodes(i, a) ==
    LET m == a.iters - 1
        target == Pow(2, m) * Pow(a.min_nodes, m - i) * Pow(a.max_nodes, i)
        lo == IF a.min_nodes < a.max_nodes THEN a.min_nodes ELSE a.max_nodes
        hi == IF a.min_nodes < a.max_nodes THEN a.max_nodes ELSE a.min_nodes
    IN  CHOOSE c \in lo..hi : Pow(2 * c - 1, m) < target /\ target < Pow(2 * c + 1, m)

\* IsSolved with the sign of the loss threshold dropped.
IsSolvedLossSignDropped(res, score_cp, a) ==
    \/ res = "=" /\ Abs(score_cp) < a.draw
    \/ res = "+" /\ score_cp > a.win
    \/ res = "-" /\ score_cp > a.win

\* Lines 61-63.
IsSolved(res, score_cp, a) ==
    \/ res = "=" /\ Abs(score_cp) < a.draw
    \/ res = "+" /\ score_cp > a.win
    \/ res = "-" /\ score_cp < -a.win

\* MisevalType with a score equal to the draw threshold labelled optimistic.
MisevalTypeAtThreshold(res, score_cp, a) ==
    IF res = "="
    THEN IF score_cp >= a.draw THEN "Optimistic draw eval" ELSE "Pessimistic draw eval"
    ELSE IF res = "+" THEN "Blind to win" ELSE "Blind to loss"

\* Lines 73-81.
MisevalType(res, score_cp, a) ==
    IF res = "="
    THEN IF score_cp > a.draw THEN "Optimistic draw eval" ELSE "Pessimistic draw eval"
    ELSE IF res = "+" THEN "Blind to win" ELSE "Blind to loss"

\* Skipped without the test of the tablebase answer.
SkippedGameOverOnly(b) == b.over

\* Lines 15-22: the positions that are not analysed.
Skipped(b) == b.over \/ ~b.in_tb

\* ScoreMissing with the safety check left out.
ScoreMissingUnchecked(info) == FALSE

\* Line 52: the engine failed to report a score.
ScoreMissing(info) == ~info.has_score

\* Line 49, engine.analyse(..., game=board_copy).  python-chess documents the
\* game argument as "an arbitrary object that identifies the game. Will
\* automatically inform the engine if the object is not equal to the previous
\* game (e.g., ucinewgame, new)": "ucinewgame" is sent when no game was
\* announced yet or when game != the previous game.  chess.Board defines
\* equality by position, so a copy of a board equals the board.
SendsNewGame(first, previous, game) == first \/ previous # game

\* ---------------------------------------------------------------- states
\* The inputs of a run: the command line, the input files and the engine.  The
\* full product is covered by four families, each free in one direction:
\* the engine's replies (at draw = 1, win = 2, on one tablebase position), the
\* node budget pair, the boards, and the thresholds (at iters = 2).
Inputs ==
    \/ /\ args \in {a \in Args : a.min_nodes = 1 /\ a.max_nodes = MaxNodes
                                  /\ a.draw = 1 /\ a.win = 2}
       /\ corpus \in {ClassBoards(d) : d \in {-DtzLimit, 0, DtzLimit}}
       /\ replies = {i \in Infos : i.score # -1}
    \/ /\ args \in {a \in Args : a.draw = 1 /\ a.win = 2}
       /\ corpus = {b \in Boards : ~b.over /\ b.in_tb /\ b.dtz = 0}
       /\ replies = {i \in Infos : i.has_score /\ i.score \in {0, 3}}
    \/ /\ args \in {a \in Args : a.min_nodes = 1 /\ a.max_nodes = MaxNodes
                                  /\ a.draw = 1 /\ a.win = 2}
       /\ corpus = Boards
       /\ replies = {i \in Infos : i.has_score /\ i.score \in {-3, 3}}
    \/ /\ args \in {a \in Args : a.min_nodes = 1 /\ a.max_nodes = MaxNodes /\ a.iters = 2}
       /\ corpus \in {ClassBoards(d) : d \in {-DtzLimit, 0, DtzLimit}}
       /\ replies = Infos

Init ==
    /\ Inputs
    /\ phase = "epd"
    /\ pc = "main"
    /\ ncalls = 0
    /\ board = [over |-> TRUE, in_tb |-> TRUE, dtz |-> 0]
    /\ result = ""
    /\ n = 0
    /\ first_game = TRUE
    /\ engine_game = [over |-> TRUE, in_tb |-> TRUE, dtz |-> 0]
    /\ searches = <<>>
    /\ sample_file = <<>>
    /\ miseval_file = <<>>

\* Lines 13-33: the call of maybe_analyse_board up to the for loop.
MaybeAnalyseBoard(b) ==
    /\ ncalls' = ncalls + 1
    /\ board' = b
    /\ searches' = <<>>
    /\ n' = 0
    /\ IF Skipped(b)
       THEN /\ pc' = "main"
            /\ result' = ""
            /\ UNCHANGED sample_file
       ELSE /\ pc' = "loop"
            /\ result' = Result(b.dtz)
            /\ sample_file' = Append(sample_file, [pos |-> ncalls + 1, board |-> b])
    /\ UNCHANGED <<args, corpus, replies, phase, first_game, engine_game, miseval_file>>

\* Lines 212-217: one line of an EPD file.
EpdLine ==
    /\ phase = "epd" /\ pc = "main"
    /\ ncalls < MaxPositions
    /\ \E b \in corpus : MaybeAnalyseBoard(b)

\* Lines 219-222: the EPD files are exhausted.
EpdEnd ==
    /\ phase = "epd" /\ pc = "main"
    /\ phase' = "pgn"
    /\ UNCHANGED <<args, corpus, replies, pc, ncalls, board, result, n, first_game, engine_game,
                   searches, sample_file, miseval_file>>

\* Lines 224-238: a move of a game is pushed; the position is analysed when
\* random.uniform(0.0, 100.0) <= args.rate, and passed over otherwise.
PgnMove ==
    /\ phase = "pgn" /\ pc = "main"
    /\ ncalls < MaxPositions
    /\ \E b \in corpus, sampled \in BOOLEAN :
          IF sampled THEN MaybeAnalyseBoard(b) ELSE UNCHANGED vars

\* Lines 240-246: the PGN files are exhausted, the final cleanup.
PgnEnd ==
    /\ phase = "pgn" /\ pc = "main"
    /\ phase' = "done"
    /\ UNCHANGED <<args, corpus, replies, pc, ncalls, board, result, n, first_game, engine_game,
                   searches, sample_file, miseval_file>>

\* Lines 37-94: one iteration of the for loop; the last iteration that does not
\* return falls through to the miseval write.  last_eval is score_cp of the
\* iteration (line 58).
Iteration ==
    /\ pc = "loop"
    /\ IF args.iters - 1 = 0
       THEN \* line 43: n / (args.iters - 1) raises ZeroDivisionError
            /\ pc' = "raised"
            /\ UNCHANGED <<args, corpus, replies, phase, ncalls, board, result, n,
                           first_game, engine_game, searches, sample_file, miseval_file>>
       ELSE \E info \in replies :
            LET cur_nodes == CurNodes(n, args)
                newgame == SendsNewGame(first_game, engine_game, board)
                score_cp == info.score
                return == pc' = "main" /\ result' = "" /\ n' = 0
            IN  /\ searches' = Append(searches,
                        [n |-> n, nodes |-> cur_nodes, info |-> info, newgame |-> newgame])
                /\ first_game' = FALSE
                /\ engine_game' = board
                /\ IF ScoreMissing(info)
                   THEN return /\ UNCHANGED miseval_file
                   ELSE IF IsSolved(result, score_cp, args)
                   THEN return /\ UNCHANGED miseval_file
                   ELSE IF n + 1 < args.iters
                   THEN /\ n' = n + 1
                        /\ UNCHANGED <<pc, result, miseval_file>>
                   ELSE /\ miseval_file' = Append(miseval_file,
                                [pos |-> ncalls, board |-> board,
                                 c0 |-> MisevalType(result, score_cp, args),
                                 ce |-> score_cp])
                        /\ return
                /\ UNCHANGED <<args, corpus, replies, phase, ncalls, board, sample_file>>

Next == EpdLine \/ EpdEnd \/ PgnMove \/ PgnEnd \/ Iteration

Spec == Init /\ [][Next]_vars

\* ---------------------------------------------------------------- claims
\* The vocabulary of the claims, stated independently of the code's operators.
GroundTruth(dtz) ==
    IF dtz = 0 \/ dtz > 100 \/ dtz < -100 THEN "Draw"
    ELSE IF 0 < dtz /\ dtz <= 100 THEN "Win" ELSE "Loss"

SolvedPredicate(truth, score) ==
    \/ truth = "Draw" /\ -args.draw < score /\ score < args.draw
    \/ truth = "Win" /\ score > args.win
    \/ truth = "Loss" /\ score < -args.win

\* The latest position handed to maybe_analyse_board is probed.
Probed == ncalls >= 1 /\ ~board.over /\ board.in_tb

\* Search number i of the latest position returned a score that solves it.
SolvedAt(i) ==
    /\ searches[i].info.has_score
    /\ SolvedPredicate(GroundTruth(board.dtz), searches[i].info.score)

SamplesOf(p) == {i \in 1..Len(sample_file) : sample_file[i].pos = p}
FailuresOf(p) == {i \in 1..Len(miseval_file) : miseval_file[i].pos = p}

\* The probe of the latest position is over.
ProbeOver == pc # "loop"

C2_ExhaustedWritesOneFailure ==
    (/\ Probed /\ ProbeOver
     /\ \A i \in 1..Len(searches) : searches[i].info.has_score /\ ~SolvedAt(i))
    => /\ Len(searches) = args.iters
       /\ Cardinality(FailuresOf(ncalls)) = 1
       /\ \A i \in FailuresOf(ncalls) :
             miseval_file[i].ce = searches[Len(searches)].info.score

\* A search without a score is the last search of its position, leaves no
\* failure record for it and leaves the run in main's loop, where the next
\* position can be taken; the step that receives it changes neither file.
C3_MissingScoreState ==
    \A i \in 1..Len(searches) :
        ~searches[i].info.has_score =>
            /\ i = Len(searches)
            /\ FailuresOf(ncalls) = {}
            /\ pc = "main"
            /\ (phase = "epd" /\ ncalls < MaxPositions => ENABLED EpdLine)
            /\ (phase = "pgn" /\ ncalls < MaxPositions => ENABLED PgnMove)

C3_MissingScoreStep ==
    (/\ Len(searches') = Len(searches) + 1
     /\ ~searches'[Len(searches')].info.has_score)
    => /\ miseval_file' = miseval_file
       /\ sample_file' = sample_file
       /\ phase' = phase

\* C3: in every state a search without a score has aborted the probe of its
\* position only (C3_MissingScoreState), and every step that receives one
\* leaves the records written so far as they are (C3_MissingScoreStep).
C3_MissingScoreAbortsPositionOnly == []C3_MissingScoreState /\ [][C3_MissingScoreStep]_vars

\* C3 witness: the second position's second search returned no score, and the
\* failure record of the first position is still there.
C3_Witness ==
    /\ ncalls = 2 /\ Len(searches) = 2 /\ ~searches[2].info.has_score
    /\ Len(miseval_file) = 1 /\ miseval_file[1].pos = 1
    /\ pc = "main"

\* The label the claims assign to a failure on ground truth `truth` with
\* final score `score`.
ExpectedLabel(truth, score) ==
    IF truth = "Draw"
    THEN IF score > args.draw THEN "Optimistic draw eval" ELSE "Pessimistic draw eval"
    ELSE IF truth = "Win" THEN "Blind to win" ELSE "Blind to loss"

\* C4: the label of every failure record is the one the ground truth and the
\* final score determine: Draw above draw is optimistic, Draw at or below draw
\* is pessimistic, Win is blind to win, Loss is blind to loss.
C4_LabelDetermined ==
    \A i \in 1..Len(miseval_file) :
        LET r == miseval_file[i]
        IN  /\ r.c0 = ExpectedLabel(GroundTruth(r.board.dtz), r.ce)
            /\ r.c0 \in {"Optimistic draw eval", "Pessimistic draw eval",
                         "Blind to win", "Blind to loss"}

\* C4 witness: a run with an optimistic-draw record and a blind-to-win record.
C4_Witness ==
    /\ Len(miseval_file) = 2
    /\ miseval_file[1].c0 = "Optimistic draw eval"
    /\ miseval_file[2].c0 = "Blind to win"

\* C5: a failure record labelled pessimistic draw carries a final score at or
\* below -draw.
C5_PessimisticIsNegative ==
    \A i \in 1..Len(miseval_file) :
        miseval_file[i].c0 = "Pessimistic draw eval" => miseval_file[i].ce <= -args.draw

\* C6: the latest position handed to maybe_analyse_board has a sample record
\* iff it is probed (not over, and in the tablebases), and then exactly one,
\* present from before the first search on, whatever the outcome; a position
\* that is not probed gets no search, no sample and no failure record.
C6_SampleIffProbed ==
    /\ \A p \in 1..ncalls : Cardinality(SamplesOf(p)) <= 1
    /\ ncalls >= 1 =>
          IF Probed
          THEN /\ Cardinality(SamplesOf(ncalls)) = 1
               /\ \A i \in SamplesOf(ncalls) : sample_file[i].board = board
          ELSE /\ SamplesOf(ncalls) = {}
               /\ FailuresOf(ncalls) = {}
               /\ searches = <<>>
               /\ pc = "main"

\* C6 witness: the first position was passed over without a sample, the second
\* has its sample and its probe ended on a missing score.
C6_Witness ==
    /\ ncalls = 2 /\ Probed /\ ProbeOver
    /\ Len(sample_file) = 1 /\ sample_file[1].pos = 2
    /\ searches # <<>> /\ ~searches[Len(searches)].info.has_score

\* C7: every search is preceded by a new-game reset of the engine.
C7_EverySearchFresh ==
    \A i \in 1..Len(searches) : searches[i].newgame

\* C8: while a position is probed, its class is the ground truth of its DTZ
\* (Draw for 0 and beyond +-100, Win for 1..100, Loss for -100..-1); a
\* position without a DTZ value is passed over.
C8_GroundTruthOfDtz ==
    /\ pc = "loop" =>
          /\ board.in_tb
          /\ result = (CASE GroundTruth(board.dtz) = "Draw" -> "="
                         [] GroundTruth(board.dtz) = "Win" -> "+"
                         [] GroundTruth(board.dtz) = "Loss" -> "-")
    /\ (ncalls >= 1 /\ ~board.in_tb) => pc = "main" /\ SamplesOf(ncalls) = {}

\* C8 witness: a position with a DTZ beyond the horizon is probed as a draw.
C8_Witness == pc = "loop" /\ board.dtz = -101 /\ result = "="

\* The node budgets of the searches of the latest position.
Budgets == [i \in 1..Len(searches) |-> searches[i].nodes]

\* The probe of the latest position ended Exhausted.
Exhausted == Probed /\ ProbeOver /\ FailuresOf(ncalls) # {}

ScheduleShape ==
    /\ Len(Budgets) = args.iters
    /\ Budgets[1] = args.min_nodes
    /\ Budgets[Len(Budgets)] = args.max_nodes
    /\ \A i \in 1..(Len(Budgets) - 1) : Budgets[i] <= Budgets[i + 1]

\* C9 as stated: for every iters >= 2 and positive min_nodes, max_nodes the
\* budgets of an exhausted probe are iters many, start at min_nodes, end at
\* max_nodes and never decrease.
C9_ScheduleAnyBounds == (Exhausted /\ args.iters >= 2) => ScheduleShape

\* C9 amended: the same, for min_nodes <= max_nodes.
C9_ScheduleOrderedBounds ==
    (Exhausted /\ args.iters >= 2 /\ args.min_nodes <= args.max_nodes) => ScheduleShape

\* C9 witness: an exhausted probe of three iterations from 1 to 3 nodes.
C9_Witness ==
    /\ Exhausted /\ args.iters = 3 /\ args.min_nodes = 1 /\ args.max_nodes = 3
    /\ Budgets = <<1, 2, 3>>

\* C10: with iters = 1 the probe of a probed position issues exactly one
\* search, ends Solved or Exhausted, and the run goes on.
C10_OneIterationAccepted ==
    (args.iters = 1 /\ Probed /\ ProbeOver)
    => /\ pc = "main"
       /\ Len(searches) = 1
       /\ SolvedAt(1) \/ FailuresOf(ncalls) # {}
====
